---------------------------- MODULE Spec2Model ----------------------------
(***************************************************************************)
(* Model of PythonPowerFlow: Bus, Transformer, TransmissionLine,           *)
(* Generator, Load and the Circuit container that registers them.          *)
(*                                                                         *)
(* Python values are modelled as follows.                                  *)
(*   - a str is a sequence of one-character strings, so that str.strip()   *)
(*     is computed and not assumed;                                        *)
(*   - a number is an integer; a quotient is an exact fraction <<n, d>>    *)
(*     in lowest terms with d > 0;                                         *)
(*   - a complex number is a record [re, im] of two fractions;             *)
(*   - a 2x2 pandas DataFrame is a record [index, v]: the two row/column   *)
(*     labels and the four cells, v[i][j];                                 *)
(*   - a raised exception is recorded in last.err (its class) and          *)
(*     last.msg (the distinguishing part of its message).                  *)
(***************************************************************************)
EXTENDS Integers, Sequences, FiniteSets, TLC

VARIABLES
    buses,              \* Circuit._buses: insertion-ordered dict, a sequence of [key, bus]
    bus_counter,        \* Bus._bus_index: the class-wide next ordinal
    transformers,       \* Circuit._transformers: key -> Transformer
    transmission_lines, \* Circuit._transmission_lines: key -> TransmissionLine
    generators,         \* Circuit._generators: key -> Generator
    loads,              \* Circuit._loads: key -> Load
    trf,                \* what the latest Transformer(...) call gave the caller: the
                        \* object, as its setters have left it since, or NoObj if it raised
    line,               \* the same for the latest TransmissionLine(...) call
    last,               \* the call made last: its operation and the exception it raised
    bus_log,            \* the Bus class since the process started, oldest first: every
                        \* Bus object created, as created, and every reset_index_counter()
    circuit_name        \* Circuit._name of the caller's circuit

vars == <<buses, bus_counter, transformers, transmission_lines, generators,
          loads, trf, line, last, bus_log, circuit_name>>

circuit_vars == <<buses, bus_counter, transformers, transmission_lines,
                  generators, loads>>

-----------------------------------------------------------------------------
(* Bounds of the model *)

\* numeric arguments range over -1 .. MaxVal in the element specifications
MaxVal == 2

\* nominal_kv arguments range over 1 .. MaxKv
MaxKv == 2

Vals == -1 .. MaxVal

\* one negative number, zero and one positive number: the cases validation tells apart
SignVals == {-1, 0, 1}

KvVals == 1 .. MaxKv

-----------------------------------------------------------------------------
(* Strings *)

Space == " "

\* str.strip(): drop leading and trailing whitespace
RECURSIVE LStrip(_)
LStrip(s) == IF s # <<>> /\ Head(s) = Space THEN LStrip(Tail(s)) ELSE s

RECURSIVE RStrip(_)
RStrip(s) ==
    IF s # <<>> /\ s[Len(s)] = Space THEN RStrip(SubSeq(s, 1, Len(s) - 1)) ELSE s

Strip(s) == RStrip(LStrip(s))

\* a value that is not a str (None)
NoneVal == <<"None">>

IsStr(v) == v # NoneVal

\* the names the callers use
NameA == <<"A">>

NameB == <<"B">>

NameC == <<"C">>

PadA == <<" ", "A">>

Empty == <<>>

-----------------------------------------------------------------------------
(* Exact arithmetic *)

Abs(n) == IF n < 0 THEN -n ELSE n

RECURSIVE GCD(_, _)
GCD(a, b) == IF b = 0 THEN a ELSE GCD(b, a % b)

\* the fraction n/d (d # 0) in lowest terms with a positive denominator
Frac(n, d) ==
    LET s == IF d < 0 THEN -1 ELSE 1
        k == GCD(Abs(n), Abs(d))
    IN  <<(s * n) \div k, (s * d) \div k>>

FAdd(p, q) == Frac(p[1] * q[2] + q[1] * p[2], p[2] * q[2])

FNeg(p) == <<-p[1], p[2]>>

FHalf(p) == Frac(p[1], 2 * p[2])

FZero == <<0, 1>>

Cplx(re, im) == [re |-> re, im |-> im]

CAdd(a, b) == Cplx(FAdd(a.re, b.re), FAdd(a.im, b.im))

CNeg(a) == Cplx(FNeg(a.re), FNeg(a.im))

CZero == Cplx(FZero, FZero)

\* 1 / (r + 1j * x), defined when r and x are not both zero
Recip(r, x) == Cplx(Frac(r, r * r + x * x), Frac(-x, r * r + x * x))

-----------------------------------------------------------------------------
(* pandas DataFrame, 2x2, labelled by index on rows and columns *)

ZeroFrame(l1, l2) == [index |-> <<l1, l2>>, v |-> <<<<CZero, CZero>>, <<CZero, CZero>>>>]

\* matrix.loc[rl, cl] = val: every cell whose row label is rl and column label is cl
LocSet(m, rl, cl, val) ==
    [m EXCEPT !.v = [i \in 1..2 |-> [j \in 1..2 |->
        IF m.index[i] = rl /\ m.index[j] = cl THEN val ELSE m.v[i][j]]]]

-----------------------------------------------------------------------------
(* The outcome of a call *)

NoObj == [kind |-> "none"]

Ok == [err |-> "none", msg |-> ""]

Raise(cls, m) == [err |-> cls, msg |-> m]

\* what `last` keeps of a call: the operation, the exception class, the message
Call(op, res) == [op |-> op, err |-> res.err, msg |-> res.msg]

-----------------------------------------------------------------------------
(* Transformer *)

\* Transformer._validate_params without its check of the signs
T_validate_params_no_sign(t) ==
    IF ~IsStr(t.name) \/ ~IsStr(t.bus1_name) \/ ~IsStr(t.bus2_name)
    THEN Raise("ValueError", "non-empty string")
    ELSE IF t.name = Empty \/ t.bus1_name = Empty \/ t.bus2_name = Empty
    THEN Raise("ValueError", "non-empty string")
    ELSE IF t.r = 0 /\ t.x = 0
    THEN Raise("ValueError", "both zero")
    ELSE Ok

\* Transformer._validate_params
T_validate_params(t) ==
    IF ~IsStr(t.name) \/ ~IsStr(t.bus1_name) \/ ~IsStr(t.bus2_name)
    THEN Raise("ValueError", "non-empty string")
    ELSE IF t.name = Empty \/ t.bus1_name = Empty \/ t.bus2_name = Empty
    THEN Raise("ValueError", "non-empty string")
    ELSE IF t.r < 0 \/ t.x < 0 \/ t.g < 0 \/ t.b < 0
    THEN Raise("ValueError", "non-negative")
    ELSE IF t.r = 0 /\ t.x = 0
    THEN Raise("ValueError", "both zero")
    ELSE Ok

\* Transformer._build_admittance_matrix without its last assignment, [bus2, bus1]
T_build_admittance_matrix_one_sided(t) ==
    LET y_complex == Recip(t.r, t.x)
        m0 == ZeroFrame(t.bus1_name, t.bus2_name)
        m1 == LocSet(m0, t.bus1_name, t.bus1_name, y_complex)
        m2 == LocSet(m1, t.bus2_name, t.bus2_name, y_complex)
        m3 == LocSet(m2, t.bus1_name, t.bus2_name, CNeg(y_complex))
    IN  m3

\* Transformer._build_admittance_matrix
T_build_admittance_matrix(t) ==
    LET y_complex == Recip(t.r, t.x)
        m0 == ZeroFrame(t.bus1_name, t.bus2_name)
        m1 == LocSet(m0, t.bus1_name, t.bus1_name, y_complex)
        m2 == LocSet(m1, t.bus2_name, t.bus2_name, y_complex)
        m3 == LocSet(m2, t.bus1_name, t.bus2_name, CNeg(y_complex))
        m4 == LocSet(m3, t.bus2_name, t.bus1_name, CNeg(y_complex))
    IN  m4

\* Transformer.__init__: the exception raised and the object built (NoObj when it raises)
T_init(name, bus1_name, bus2_name, r, x, g, b) ==
    LET t == [kind |-> "Transformer", name |-> name,
              bus1_name |-> bus1_name, bus2_name |-> bus2_name,
              r |-> r, x |-> x, g |-> g, b |-> b,
              admittance_matrix |-> ZeroFrame(bus1_name, bus2_name)]
        res == T_validate_params(t)
    IN  IF res.err # "none"
        THEN [res |-> res, obj |-> NoObj]
        ELSE [res |-> res,
              obj |-> [t EXCEPT !.admittance_matrix = T_build_admittance_matrix(t)]]

\* the body shared by the r, x, g, b setters, after the assignment to the field:
\* self._validate_params(); self._admittance_matrix = self._build_admittance_matrix()
T_revalidate_rebuild(t) ==
    LET res == T_validate_params(t)
    IN  IF res.err # "none"
        THEN [res |-> res, obj |-> t]
        ELSE [res |-> res,
              obj |-> [t EXCEPT !.admittance_matrix = T_build_admittance_matrix(t)]]

\* Transformer.r setter
T_r_setter(t, value) == T_revalidate_rebuild([t EXCEPT !.r = value])

\* Transformer.x setter that validates and leaves the matrix as it was
T_x_setter_no_rebuild(t, value) ==
    [res |-> T_validate_params([t EXCEPT !.x = value]), obj |-> [t EXCEPT !.x = value]]

\* Transformer.x setter
T_x_setter(t, value) == T_revalidate_rebuild([t EXCEPT !.x = value])

\* Transformer.g setter
T_g_setter(t, value) == T_revalidate_rebuild([t EXCEPT !.g = value])

\* Transformer.b setter
T_b_setter(t, value) == T_revalidate_rebuild([t EXCEPT !.b = value])

-----------------------------------------------------------------------------
(* Calls on a Transformer the caller holds directly *)

\* t = Transformer(name, bus1_name, bus2_name, r, x, g, b), the caller holding none yet
NewTransformer(name, bus1_name, bus2_name, r, x, g, b) ==
    LET out == T_init(name, bus1_name, bus2_name, r, x, g, b)
    IN  /\ trf = NoObj
        /\ trf' = out.obj
        /\ last' = Call("Transformer", out.res)
        /\ UNCHANGED <<circuit_vars, line, bus_log, circuit_name>>

\* t.r = value
SetTransformerR(value) ==
    /\ trf # NoObj
    /\ LET out == T_r_setter(trf, value)
       IN  /\ trf' = out.obj
           /\ last' = Call("Transformer.r", out.res)
    /\ UNCHANGED <<circuit_vars, line, bus_log, circuit_name>>

\* t.x = value
SetTransformerX(value) ==
    /\ trf # NoObj
    /\ LET out == T_x_setter(trf, value)
       IN  /\ trf' = out.obj
           /\ last' = Call("Transformer.x", out.res)
    /\ UNCHANGED <<circuit_vars, line, bus_log, circuit_name>>

\* t.g = value
SetTransformerG(value) ==
    /\ trf # NoObj
    /\ LET out == T_g_setter(trf, value)
       IN  /\ trf' = out.obj
           /\ last' = Call("Transformer.g", out.res)
    /\ UNCHANGED <<circuit_vars, line, bus_log, circuit_name>>

\* t.b = value
SetTransformerB(value) ==
    /\ trf # NoObj
    /\ LET out == T_b_setter(trf, value)
       IN  /\ trf' = out.obj
           /\ last' = Call("Transformer.b", out.res)
    /\ UNCHANGED <<circuit_vars, line, bus_log, circuit_name>>

-----------------------------------------------------------------------------
(* TransmissionLine (transmissionline.py, the class circuit.py imports) *)

\* float(value): a number keeps its value (2 == 2.0)
AsFloat(value) == value

\* TransmissionLine._validate_params
L_validate_params(name, bus1_name, bus2_name, r, x) ==
    IF ~IsStr(name) \/ ~IsStr(bus1_name) \/ ~IsStr(bus2_name)
    THEN Raise("ValueError", "non-empty string")
    ELSE IF name = Empty \/ bus1_name = Empty \/ bus2_name = Empty
    THEN Raise("ValueError", "non-empty string")
    ELSE IF r < 0 \/ x < 0
    THEN Raise("ValueError", "non-negative")
    ELSE IF r = 0 /\ x = 0
    THEN Raise("ValueError", "both zero")
    ELSE Ok

\* TransmissionLine.calc_g: self._r / (self._r ** 2 + self._x ** 2)
L_calc_g(l) == Frac(l.r, l.r * l.r + l.x * l.x)

\* TransmissionLine.calc_b: -self._x / (self._r ** 2 + self._x ** 2)
L_calc_b(l) == Frac(-l.x, l.r * l.r + l.x * l.x)

\* TransmissionLine._build_admittance_matrix: y_complex is read from the stored
\* _g and _b, the diagonal adds 1j * calc_g() / 2
L_build_admittance_matrix(l) ==
    LET y_complex == Cplx(l.g, l.b)
        diag == CAdd(y_complex, Cplx(FZero, FHalf(L_calc_g(l))))
        m0 == ZeroFrame(l.bus1_name, l.bus2_name)
        m1 == LocSet(m0, l.bus1_name, l.bus1_name, diag)
        m2 == LocSet(m1, l.bus2_name, l.bus2_name, diag)
        m3 == LocSet(m2, l.bus1_name, l.bus2_name, CNeg(y_complex))
        m4 == LocSet(m3, l.bus2_name, l.bus1_name, CNeg(y_complex))
    IN  m4

\* TransmissionLine.__init__: the exception raised and the object built
L_init(name, bus1_name, bus2_name, r, x) ==
    LET res == L_validate_params(name, bus1_name, bus2_name, r, x)
        l0 == [kind |-> "TransmissionLine", name |-> name,
               bus1_name |-> bus1_name, bus2_name |-> bus2_name,
               r |-> r, x |-> x, g |-> FZero, b |-> FZero,
               admittance_matrix |-> ZeroFrame(bus1_name, bus2_name)]
        l1 == [l0 EXCEPT !.g = L_calc_g(l0)]
        l2 == [l1 EXCEPT !.b = L_calc_b(l1)]
    IN  IF res.err # "none"
        THEN [res |-> res, obj |-> NoObj]
        ELSE [res |-> res,
              obj |-> [l2 EXCEPT !.admittance_matrix = L_build_admittance_matrix(l2)]]

\* TransmissionLine.r setter
L_r_setter(l, value) ==
    IF AsFloat(value) < 0
    THEN [res |-> Raise("ValueError", "r must be >= 0"), obj |-> l]
    ELSE [res |-> Ok, obj |-> [l EXCEPT !.r = AsFloat(value)]]

\* TransmissionLine.x setter
L_x_setter(l, value) == [res |-> Ok, obj |-> [l EXCEPT !.x = AsFloat(value)]]

\* TransmissionLine.name setter
L_name_setter(l, value) ==
    IF ~IsStr(value) \/ Strip(value) = Empty
    THEN [res |-> Raise("ValueError", "non-empty string"), obj |-> l]
    ELSE [res |-> Ok, obj |-> [l EXCEPT !.name = Strip(value)]]

\* TransmissionLine.bus1_name setter
L_bus1_name_setter(l, value) ==
    IF ~IsStr(value) \/ Strip(value) = Empty
    THEN [res |-> Raise("ValueError", "non-empty string"), obj |-> l]
    ELSE [res |-> Ok, obj |-> [l EXCEPT !.bus1_name = Strip(value)]]

\* TransmissionLine.bus2_name setter
L_bus2_name_setter(l, value) ==
    IF ~IsStr(value) \/ Strip(value) = Empty
    THEN [res |-> Raise("ValueError", "non-empty string"), obj |-> l]
    ELSE [res |-> Ok, obj |-> [l EXCEPT !.bus2_name = Strip(value)]]

\* TransmissionLine.g property
L_g_getter(l) ==
    IF l.r * l.r + l.x * l.x = 0
    THEN Raise("ZeroDivisionError", "g is undefined")
    ELSE Ok

-----------------------------------------------------------------------------
(* Calls on a TransmissionLine the caller holds directly *)

\* l = TransmissionLine(name, bus1_name, bus2_name, r, x), the caller holding none yet
NewTransmissionLine(name, bus1_name, bus2_name, r, x) ==
    LET out == L_init(name, bus1_name, bus2_name, r, x)
    IN  /\ line = NoObj
        /\ line' = out.obj
        /\ last' = Call("TransmissionLine", out.res)
        /\ UNCHANGED <<circuit_vars, trf, bus_log, circuit_name>>

\* l.r = value
SetLineR(value) ==
    /\ line # NoObj
    /\ LET out == L_r_setter(line, value)
       IN  /\ line' = out.obj
           /\ last' = Call("TransmissionLine.r", out.res)
    /\ UNCHANGED <<circuit_vars, trf, bus_log, circuit_name>>

\* l.x = value
SetLineX(value) ==
    /\ line # NoObj
    /\ LET out == L_x_setter(line, value)
       IN  /\ line' = out.obj
           /\ last' = Call("TransmissionLine.x", out.res)
    /\ UNCHANGED <<circuit_vars, trf, bus_log, circuit_name>>

\* l.g
ReadLineG ==
    /\ line # NoObj
    /\ last' = Call("TransmissionLine.g", L_g_getter(line))
    /\ UNCHANGED <<circuit_vars, trf, line, bus_log, circuit_name>>

-----------------------------------------------------------------------------
(* dict: insertion-ordered, a sequence of [key, val] with distinct keys *)

Keys(d) == {d[i].key : i \in DOMAIN d}

Get(d, k) == d[CHOOSE i \in DOMAIN d : d[i].key = k].val

\* d[k] = v with a new key put first
DictSet_prepend(d, k, v) ==
    IF k \in Keys(d)
    THEN [i \in DOMAIN d |-> IF d[i].key = k THEN [key |-> k, val |-> v] ELSE d[i]]
    ELSE <<[key |-> k, val |-> v]>> \o d

\* d[k] = v: a new key goes last, an existing key keeps its place
DictSet(d, k, v) ==
    IF k \in Keys(d)
    THEN [i \in DOMAIN d |-> IF d[i].key = k THEN [key |-> k, val |-> v] ELSE d[i]]
    ELSE Append(d, [key |-> k, val |-> v])

-----------------------------------------------------------------------------
(* Bus, Generator, Load *)

\* Bus.__init__, with Bus._bus_index = counter when it is called
Bus_init(name, nominal_kv, counter) ==
    [kind |-> "Bus", name |-> name, bus_index |-> counter, nominal_kv |-> nominal_kv]

\* a value given for a numeric field of a Generator carries its Python type:
\* an int or float n is PyNum(n), None is PyNone
PyNum(n) == [t |-> "num", n |-> n]

PyNone == [t |-> "None"]

\* float('inf'), float('-inf') and float('nan')
PyInf == [t |-> "inf"]

PyNegInf == [t |-> "-inf"]

PyNaN == [t |-> "nan"]

\* True or False
PyBool(b) == [t |-> "bool", b |-> b]

\* a str such as "100 MW"
PyStr == [t |-> "str"]

\* isinstance(value, (int, float)), bool being a subclass of int
IsIntOrFloat(value) == value.t \in {"num", "inf", "-inf", "nan", "bool"}

\* math.isfinite(v) of a float v
IsFinite(v) == v.t = "num"

\* v <= 0 of a float v: False for nan as every comparison with nan is
LeZero(v) == v.t = "-inf" \/ (v.t = "num" /\ v.n <= 0)

\* Generator._as_float
G_as_float(value) ==
    IF value.t = "bool" \/ ~IsIntOrFloat(value)
    THEN Raise("TypeError", "must be a number")
    ELSE Ok

\* Generator._validate_params
G_validate_params(name, bus_name, mw_setpoint, v_setpoint) ==
    IF ~IsStr(name) \/ ~IsStr(bus_name) \/ Strip(name) = Empty \/ Strip(bus_name) = Empty
    THEN Raise("ValueError", "non-empty string")
    ELSE IF G_as_float(mw_setpoint).err # "none"
    THEN G_as_float(mw_setpoint)
    ELSE IF ~IsFinite(mw_setpoint)
    THEN Raise("ValueError", "mw_setpoint must be finite")
    ELSE IF v_setpoint # PyNone /\ G_as_float(v_setpoint).err # "none"
    THEN G_as_float(v_setpoint)
    ELSE IF v_setpoint # PyNone /\ LeZero(v_setpoint)
    THEN Raise("ValueError", "v_setpoint must be positive")
    ELSE Ok

\* Generator.__init__
G_init(name, bus_name, mw_setpoint, v_setpoint) ==
    LET res == G_validate_params(name, bus_name, mw_setpoint, v_setpoint)
    IN  IF res.err # "none"
        THEN [res |-> res, obj |-> NoObj]
        ELSE [res |-> res,
              obj |-> [kind |-> "Generator", name |-> name, bus_name |-> bus_name,
                       mw_setpoint |-> mw_setpoint, v_setpoint |-> v_setpoint]]


\* Generator.name setter
G_name_setter(g, value) ==
    IF ~IsStr(value) \/ Strip(value) = Empty
    THEN [res |-> Raise("ValueError", "non-empty string"), obj |-> g]
    ELSE [res |-> Ok, obj |-> [g EXCEPT !.name = Strip(value)]]

\* Generator.bus_name setter
G_bus_name_setter(g, value) ==
    IF ~IsStr(value) \/ Strip(value) = Empty
    THEN [res |-> Raise("ValueError", "non-empty string"), obj |-> g]
    ELSE [res |-> Ok, obj |-> [g EXCEPT !.bus_name = Strip(value)]]

\* Generator.mw_setpoint setter
G_mw_setpoint_setter(g, value) ==
    IF G_as_float(value).err # "none"
    THEN [res |-> G_as_float(value), obj |-> g]
    ELSE IF ~IsFinite(value)
    THEN [res |-> Raise("ValueError", "mw_setpoint must be finite"), obj |-> g]
    ELSE [res |-> Ok, obj |-> [g EXCEPT !.mw_setpoint = value]]

\* a v_setpoint setter that stores the value and validates it afterwards
G_v_setpoint_setter_store_first(g, value) ==
    LET stored == [g EXCEPT !.v_setpoint = value]
    IN  IF value = PyNone
        THEN [res |-> Ok, obj |-> stored]
        ELSE IF G_as_float(value).err # "none"
        THEN [res |-> G_as_float(value), obj |-> stored]
        ELSE IF LeZero(value)
        THEN [res |-> Raise("ValueError", "v_setpoint must be positive"), obj |-> stored]
        ELSE [res |-> Ok, obj |-> stored]

\* Generator.v_setpoint setter
G_v_setpoint_setter(g, value) ==
    IF value = PyNone
    THEN [res |-> Ok, obj |-> [g EXCEPT !.v_setpoint = PyNone]]
    ELSE IF G_as_float(value).err # "none"
    THEN [res |-> G_as_float(value), obj |-> g]
    ELSE IF LeZero(value)
    THEN [res |-> Raise("ValueError", "v_setpoint must be positive"), obj |-> g]
    ELSE [res |-> Ok, obj |-> [g EXCEPT !.v_setpoint = value]]

\* Load._validate_params
Ld_validate_params(name, bus1_name, mw, mvar) ==
    IF ~IsStr(name) \/ ~IsStr(bus1_name)
    THEN Raise("ValueError", "non-empty string")
    ELSE IF name = Empty \/ bus1_name = Empty
    THEN Raise("ValueError", "non-empty string")
    ELSE Ok

\* Load.__init__
Ld_init(name, bus1_name, mw, mvar) ==
    LET res == Ld_validate_params(name, bus1_name, mw, mvar)
    IN  IF res.err # "none"
        THEN [res |-> res, obj |-> NoObj]
        ELSE [res |-> res,
              obj |-> [kind |-> "Load", name |-> name, bus1_name |-> bus1_name,
                       mw |-> mw, mvar |-> mvar]]

\* Load.name setter
Ld_name_setter(ld, value) ==
    IF ~IsStr(value) \/ Strip(value) = Empty
    THEN [res |-> Raise("ValueError", "non-empty string"), obj |-> ld]
    ELSE [res |-> Ok, obj |-> [ld EXCEPT !.name = Strip(value)]]

-----------------------------------------------------------------------------
(* Circuit: the add methods *)

\* Circuit.add_bus without its check of the name
AddBus_overwrite(name, nominal_kv) ==
    /\ buses' = DictSet(buses, name, Bus_init(name, nominal_kv, bus_counter))
    /\ bus_counter' = bus_counter + 1
    /\ bus_log' = Append(bus_log, Bus_init(name, nominal_kv, bus_counter))
    /\ last' = Call("add_bus", Ok)
    /\ UNCHANGED <<transformers, transmission_lines, generators, loads, trf, line, circuit_name>>

\* a Circuit.add_bus that builds the Bus before it looks the name up
AddBus_builds_first(name, nominal_kv) ==
    IF name \in Keys(buses)
    THEN /\ last' = Call("add_bus", Raise("ValueError", "already exists"))
         /\ bus_counter' = bus_counter + 1
         /\ bus_log' = Append(bus_log, Bus_init(name, nominal_kv, bus_counter))
         /\ UNCHANGED <<buses, transformers, transmission_lines, generators, loads, trf, line, circuit_name>>
    ELSE /\ buses' = DictSet(buses, name, Bus_init(name, nominal_kv, bus_counter))
         /\ bus_counter' = bus_counter + 1
         /\ bus_log' = Append(bus_log, Bus_init(name, nominal_kv, bus_counter))
         /\ last' = Call("add_bus", Ok)
         /\ UNCHANGED <<transformers, transmission_lines, generators, loads, trf, line, circuit_name>>

\* Circuit.add_bus
AddBus(name, nominal_kv) ==
    IF name \in Keys(buses)
    THEN /\ last' = Call("add_bus", Raise("ValueError", "already exists"))
         /\ UNCHANGED <<circuit_vars, trf, line, bus_log, circuit_name>>
    ELSE /\ buses' = DictSet(buses, name, Bus_init(name, nominal_kv, bus_counter))
         /\ bus_counter' = bus_counter + 1
         /\ bus_log' = Append(bus_log, Bus_init(name, nominal_kv, bus_counter))
         /\ last' = Call("add_bus", Ok)
         /\ UNCHANGED <<transformers, transmission_lines, generators, loads, trf, line, circuit_name>>

\* Circuit.add_transformer that looks only bus1_name up
AddTransformer_bus1_only(name, bus1_name, bus2_name, r, x) ==
    IF name \in Keys(transformers)
    THEN /\ last' = Call("add_transformer", Raise("ValueError", "already exists"))
         /\ UNCHANGED <<circuit_vars, trf, line, bus_log, circuit_name>>
    ELSE IF bus1_name \notin Keys(buses)
    THEN /\ last' = Call("add_transformer", Raise("ValueError", "not both in circuit"))
         /\ UNCHANGED <<circuit_vars, trf, line, bus_log, circuit_name>>
    ELSE LET out == T_init(name, bus1_name, bus2_name, r, x, 0, 0)
         IN  /\ transformers' = IF out.res.err = "none"
                                THEN DictSet(transformers, name, out.obj)
                                ELSE transformers
             /\ last' = Call("add_transformer", out.res)
             /\ UNCHANGED <<buses, bus_counter, transmission_lines, generators, loads,
                            trf, line, bus_log, circuit_name>>

\* Circuit.add_transformer that looks the buses up before the name
AddTransformer_buses_first(name, bus1_name, bus2_name, r, x) ==
    IF bus1_name \notin Keys(buses) \/ bus2_name \notin Keys(buses)
    THEN /\ last' = Call("add_transformer", Raise("ValueError", "not both in circuit"))
         /\ UNCHANGED <<circuit_vars, trf, line, bus_log, circuit_name>>
    ELSE IF name \in Keys(transformers)
    THEN /\ last' = Call("add_transformer", Raise("ValueError", "already exists"))
         /\ UNCHANGED <<circuit_vars, trf, line, bus_log, circuit_name>>
    ELSE LET out == T_init(name, bus1_name, bus2_name, r, x, 0, 0)
         IN  /\ transformers' = IF out.res.err = "none"
                                THEN DictSet(transformers, name, out.obj)
                                ELSE transformers
             /\ last' = Call("add_transformer", out.res)
             /\ UNCHANGED <<buses, bus_counter, transmission_lines, generators, loads,
                            trf, line, bus_log, circuit_name>>

\* Circuit.add_transformer that keeps the new transformer only
AddTransformer_replace(name, bus1_name, bus2_name, r, x) ==
    IF name \in Keys(transformers)
    THEN /\ last' = Call("add_transformer", Raise("ValueError", "already exists"))
         /\ UNCHANGED <<circuit_vars, trf, line, bus_log, circuit_name>>
    ELSE IF bus1_name \notin Keys(buses) \/ bus2_name \notin Keys(buses)
    THEN /\ last' = Call("add_transformer", Raise("ValueError", "not both in circuit"))
         /\ UNCHANGED <<circuit_vars, trf, line, bus_log, circuit_name>>
    ELSE LET out == T_init(name, bus1_name, bus2_name, r, x, 0, 0)
         IN  /\ transformers' = IF out.res.err = "none"
                                THEN <<[key |-> name, val |-> out.obj]>>
                                ELSE transformers
             /\ last' = Call("add_transformer", out.res)
             /\ UNCHANGED <<buses, bus_counter, transmission_lines, generators, loads,
                            trf, line, bus_log, circuit_name>>

\* Circuit.add_transformer
AddTransformer(name, bus1_name, bus2_name, r, x) ==
    IF name \in Keys(transformers)
    THEN /\ last' = Call("add_transformer", Raise("ValueError", "already exists"))
         /\ UNCHANGED <<circuit_vars, trf, line, bus_log, circuit_name>>
    ELSE IF bus1_name \notin Keys(buses) \/ bus2_name \notin Keys(buses)
    THEN /\ last' = Call("add_transformer", Raise("ValueError", "not both in circuit"))
         /\ UNCHANGED <<circuit_vars, trf, line, bus_log, circuit_name>>
    ELSE LET out == T_init(name, bus1_name, bus2_name, r, x, 0, 0)
         IN  /\ transformers' = IF out.res.err = "none"
                                THEN DictSet(transformers, name, out.obj)
                                ELSE transformers
             /\ last' = Call("add_transformer", out.res)
             /\ UNCHANGED <<buses, bus_counter, transmission_lines, generators, loads,
                            trf, line, bus_log, circuit_name>>

\* Circuit.add_transmission_line
AddTransmissionLine(name, bus1_name, bus2_name, r, x) ==
    IF name \in Keys(transmission_lines)
    THEN /\ last' = Call("add_transmission_line", Raise("ValueError", "already exists"))
         /\ UNCHANGED <<circuit_vars, trf, line, bus_log, circuit_name>>
    ELSE IF bus1_name \notin Keys(buses) \/ bus2_name \notin Keys(buses)
    THEN /\ last' = Call("add_transmission_line", Raise("ValueError", "not both in circuit"))
         /\ UNCHANGED <<circuit_vars, trf, line, bus_log, circuit_name>>
    ELSE LET out == L_init(name, bus1_name, bus2_name, r, x)
         IN  /\ transmission_lines' = IF out.res.err = "none"
                                      THEN DictSet(transmission_lines, name, out.obj)
                                      ELSE transmission_lines
             /\ last' = Call("add_transmission_line", out.res)
             /\ UNCHANGED <<buses, bus_counter, transformers, generators, loads, trf, line, bus_log, circuit_name>>

\* Circuit.add_generator refusing the name of a bus as well
AddGenerator_shared_names(name, bus_name, voltage_setpoint, mw_setpoint) ==
    IF name \in Keys(generators) \cup Keys(buses)
    THEN /\ last' = Call("add_generator", Raise("ValueError", "already exists"))
         /\ UNCHANGED <<circuit_vars, trf, line, bus_log, circuit_name>>
    ELSE LET out == G_init(name, bus_name, mw_setpoint, voltage_setpoint)
         IN  /\ generators' = IF out.res.err = "none"
                              THEN DictSet(generators, name, out.obj)
                              ELSE generators
             /\ last' = Call("add_generator", out.res)
             /\ UNCHANGED <<buses, bus_counter, transformers, transmission_lines, loads,
                            trf, line, bus_log, circuit_name>>

\* Circuit.add_generator: builds Generator(name, bus_name, mw_setpoint, voltage_setpoint)
AddGenerator(name, bus_name, voltage_setpoint, mw_setpoint) ==
    IF name \in Keys(generators)
    THEN /\ last' = Call("add_generator", Raise("ValueError", "already exists"))
         /\ UNCHANGED <<circuit_vars, trf, line, bus_log, circuit_name>>
    ELSE LET out == G_init(name, bus_name, mw_setpoint, voltage_setpoint)
         IN  /\ generators' = IF out.res.err = "none"
                              THEN DictSet(generators, name, out.obj)
                              ELSE generators
             /\ last' = Call("add_generator", out.res)
             /\ UNCHANGED <<buses, bus_counter, transformers, transmission_lines, loads,
                            trf, line, bus_log, circuit_name>>

\* Circuit.add_load
AddLoad(name, bus1_name, mw, mvar) ==
    IF name \in Keys(loads)
    THEN /\ last' = Call("add_load", Raise("ValueError", "already exists"))
         /\ UNCHANGED <<circuit_vars, trf, line, bus_log, circuit_name>>
    ELSE LET out == Ld_init(name, bus1_name, mw, mvar)
         IN  /\ loads' = IF out.res.err = "none" THEN DictSet(loads, name, out.obj) ELSE loads
             /\ last' = Call("add_load", out.res)
             /\ UNCHANGED <<buses, bus_counter, transformers, transmission_lines,
                            generators, trf, line, bus_log, circuit_name>>

-----------------------------------------------------------------------------
(* The Bus class used directly, and a new Circuit *)

\* what bus_log keeps of a Bus.reset_index_counter() call
ResetMark == [kind |-> "reset"]

\* Bus(name, nominal_kv), built by the caller and added to no circuit
NewBus(name, nominal_kv) ==
    /\ bus_log' = Append(bus_log, Bus_init(name, nominal_kv, bus_counter))
    /\ bus_counter' = bus_counter + 1
    /\ last' = Call("Bus", Ok)
    /\ UNCHANGED <<buses, transformers, transmission_lines, generators, loads, trf, line, circuit_name>>

\* Bus.reset_index_counter()
ResetIndexCounter ==
    /\ bus_counter' = 1
    /\ bus_log' = Append(bus_log, ResetMark)
    /\ last' = Call("Bus.reset_index_counter", Ok)
    /\ UNCHANGED <<buses, transformers, transmission_lines, generators, loads, trf, line, circuit_name>>

\* Circuit(name) that starts the bus ordinals again
NewCircuit_resets_counter ==
    /\ buses' = <<>>
    /\ transformers' = <<>>
    /\ transmission_lines' = <<>>
    /\ generators' = <<>>
    /\ loads' = <<>>
    /\ bus_counter' = 1
    /\ circuit_name' = NameC
    /\ last' = Call("Circuit", Ok)
    /\ UNCHANGED <<trf, line, bus_log>>

\* circuit = Circuit(name), name a non-blank str without surrounding whitespace: the
\* caller's circuit is a new one with five empty registries
NewCircuit ==
    /\ buses' = <<>>
    /\ transformers' = <<>>
    /\ transmission_lines' = <<>>
    /\ generators' = <<>>
    /\ loads' = <<>>
    /\ circuit_name' = NameC
    /\ last' = Call("Circuit", Ok)
    /\ UNCHANGED <<bus_counter, trf, line, bus_log>>

\* what `raise warnings.warn(...)` raises: warn() returns None under the default
\* warning filters and `raise None` is a TypeError; under an "error" filter
\* warn() itself raises the UserWarning
WarnOutcomes == {"TypeError", "UserWarning"}

\* Circuit.__init__, up to the assignments: the exception it raises, if any
Circuit_init(name, warn_outcome) ==
    IF ~IsStr(name) \/ Strip(name) = Empty
    THEN Raise("ValueError", "non-empty string")
    ELSE IF name # Strip(name)
    THEN Raise(warn_outcome, "name is stripped")
    ELSE Ok

\* circuit = Circuit(name) for any name: the caller keeps the circuit they had
\* when the constructor raises
CircuitNew(name) ==
    \E warn_outcome \in WarnOutcomes :
        LET res == Circuit_init(name, warn_outcome)
        IN  IF res.err # "none"
            THEN /\ last' = Call("Circuit", res)
                 /\ UNCHANGED <<circuit_vars, trf, line, bus_log, circuit_name>>
            ELSE /\ circuit_name' = Strip(name)
                 /\ buses' = <<>>
                 /\ transformers' = <<>>
                 /\ transmission_lines' = <<>>
                 /\ generators' = <<>>
                 /\ loads' = <<>>
                 /\ last' = Call("Circuit", Ok)
                 /\ UNCHANGED <<bus_counter, trf, line, bus_log>>

\* circuit.name = value
SetCircuitName(value) ==
    /\ IF ~IsStr(value) \/ Strip(value) = Empty
       THEN /\ last' = Call("Circuit.name", Raise("ValueError", "non-empty string"))
            /\ UNCHANGED circuit_name
       ELSE /\ last' = Call("Circuit.name", Ok)
            /\ circuit_name' = Strip(value)
    /\ UNCHANGED <<circuit_vars, trf, line, bus_log>>

-----------------------------------------------------------------------------
(* Calls on the elements a Circuit holds, reached through circuit.transformers[key]
   and circuit.transmission_lines[key] *)

\* circuit.transformers[key].bus1_name = value: a plain attribute of Transformer
SetRegTransformerBus1(key, value) ==
    /\ key \in Keys(transformers)
    /\ transformers' = DictSet(transformers, key,
                               [Get(transformers, key) EXCEPT !.bus1_name = value])
    /\ last' = Call("Transformer.bus1_name", Ok)
    /\ UNCHANGED <<buses, bus_counter, transmission_lines, generators, loads, trf, line, bus_log, circuit_name>>

\* circuit.transformers[key].bus2_name = value: a plain attribute of Transformer
SetRegTransformerBus2(key, value) ==
    /\ key \in Keys(transformers)
    /\ transformers' = DictSet(transformers, key,
                               [Get(transformers, key) EXCEPT !.bus2_name = value])
    /\ last' = Call("Transformer.bus2_name", Ok)
    /\ UNCHANGED <<buses, bus_counter, transmission_lines, generators, loads, trf, line, bus_log, circuit_name>>

\* circuit.transmission_lines[key].bus1_name = value
SetRegLineBus1(key, value) ==
    /\ key \in Keys(transmission_lines)
    /\ LET out == L_bus1_name_setter(Get(transmission_lines, key), value)
       IN  /\ transmission_lines' = DictSet(transmission_lines, key, out.obj)
           /\ last' = Call("TransmissionLine.bus1_name", out.res)
    /\ UNCHANGED <<buses, bus_counter, transformers, generators, loads, trf, line, bus_log, circuit_name>>

\* circuit.transmission_lines[key].bus2_name = value
SetRegLineBus2(key, value) ==
    /\ key \in Keys(transmission_lines)
    /\ LET out == L_bus2_name_setter(Get(transmission_lines, key), value)
       IN  /\ transmission_lines' = DictSet(transmission_lines, key, out.obj)
           /\ last' = Call("TransmissionLine.bus2_name", out.res)
    /\ UNCHANGED <<buses, bus_counter, transformers, generators, loads, trf, line, bus_log, circuit_name>>

\* circuit.transformers[key].r = value
SetRegTransformerR(key, value) ==
    /\ key \in Keys(transformers)
    /\ LET out == T_r_setter(Get(transformers, key), value)
       IN  /\ transformers' = DictSet(transformers, key, out.obj)
           /\ last' = Call("Transformer.r", out.res)
    /\ UNCHANGED <<buses, bus_counter, transmission_lines, generators, loads, trf, line,
                   bus_log, circuit_name>>

\* circuit.transformers[key].x = value
SetRegTransformerX(key, value) ==
    /\ key \in Keys(transformers)
    /\ LET out == T_x_setter(Get(transformers, key), value)
       IN  /\ transformers' = DictSet(transformers, key, out.obj)
           /\ last' = Call("Transformer.x", out.res)
    /\ UNCHANGED <<buses, bus_counter, transmission_lines, generators, loads, trf, line,
                   bus_log, circuit_name>>

\* circuit.transformers[key].g = value
SetRegTransformerG(key, value) ==
    /\ key \in Keys(transformers)
    /\ LET out == T_g_setter(Get(transformers, key), value)
       IN  /\ transformers' = DictSet(transformers, key, out.obj)
           /\ last' = Call("Transformer.g", out.res)
    /\ UNCHANGED <<buses, bus_counter, transmission_lines, generators, loads, trf, line,
                   bus_log, circuit_name>>

\* circuit.transformers[key].b = value
SetRegTransformerB(key, value) ==
    /\ key \in Keys(transformers)
    /\ LET out == T_b_setter(Get(transformers, key), value)
       IN  /\ transformers' = DictSet(transformers, key, out.obj)
           /\ last' = Call("Transformer.b", out.res)
    /\ UNCHANGED <<buses, bus_counter, transmission_lines, generators, loads, trf, line,
                   bus_log, circuit_name>>

\* circuit.transmission_lines[key].r = value
SetRegLineR(key, value) ==
    /\ key \in Keys(transmission_lines)
    /\ LET out == L_r_setter(Get(transmission_lines, key), value)
       IN  /\ transmission_lines' = DictSet(transmission_lines, key, out.obj)
           /\ last' = Call("TransmissionLine.r", out.res)
    /\ UNCHANGED <<buses, bus_counter, transformers, generators, loads, trf, line, bus_log, circuit_name>>

\* circuit.transmission_lines[key].x = value
SetRegLineX(key, value) ==
    /\ key \in Keys(transmission_lines)
    /\ LET out == L_x_setter(Get(transmission_lines, key), value)
       IN  /\ transmission_lines' = DictSet(transmission_lines, key, out.obj)
           /\ last' = Call("TransmissionLine.x", out.res)
    /\ UNCHANGED <<buses, bus_counter, transformers, generators, loads, trf, line, bus_log, circuit_name>>


\* circuit.generators[key].name = value
SetRegGeneratorName(key, value) ==
    /\ key \in Keys(generators)
    /\ LET out == G_name_setter(Get(generators, key), value)
       IN  /\ generators' = DictSet(generators, key, out.obj)
           /\ last' = Call("Generator.name", out.res)
    /\ UNCHANGED <<buses, bus_counter, transformers, transmission_lines, loads, trf, line,
                   bus_log, circuit_name>>

\* circuit.generators[key].bus_name = value
SetRegGeneratorBusName(key, value) ==
    /\ key \in Keys(generators)
    /\ LET out == G_bus_name_setter(Get(generators, key), value)
       IN  /\ generators' = DictSet(generators, key, out.obj)
           /\ last' = Call("Generator.bus_name", out.res)
    /\ UNCHANGED <<buses, bus_counter, transformers, transmission_lines, loads, trf, line,
                   bus_log, circuit_name>>

\* circuit.generators[key].mw_setpoint = value
SetRegGeneratorMw(key, value) ==
    /\ key \in Keys(generators)
    /\ LET out == G_mw_setpoint_setter(Get(generators, key), value)
       IN  /\ generators' = DictSet(generators, key, out.obj)
           /\ last' = Call("Generator.mw_setpoint", out.res)
    /\ UNCHANGED <<buses, bus_counter, transformers, transmission_lines, loads, trf, line,
                   bus_log, circuit_name>>

\* circuit.generators[key].v_setpoint = value
SetRegGeneratorV(key, value) ==
    /\ key \in Keys(generators)
    /\ LET out == G_v_setpoint_setter(Get(generators, key), value)
       IN  /\ generators' = DictSet(generators, key, out.obj)
           /\ last' = Call("Generator.v_setpoint", out.res)
    /\ UNCHANGED <<buses, bus_counter, transformers, transmission_lines, loads, trf, line,
                   bus_log, circuit_name>>


\* circuit.buses[key].name = value: a plain attribute of Bus
SetRegBusName(key, value) ==
    /\ key \in Keys(buses)
    /\ buses' = DictSet(buses, key, [Get(buses, key) EXCEPT !.name = value])
    /\ last' = Call("Bus.name", Ok)
    /\ UNCHANGED <<bus_counter, transformers, transmission_lines, generators, loads, trf, line,
                   bus_log, circuit_name>>

\* circuit.transformers[key].name = value: a plain attribute of Transformer
SetRegTransformerName(key, value) ==
    /\ key \in Keys(transformers)
    /\ transformers' = DictSet(transformers, key,
                               [Get(transformers, key) EXCEPT !.name = value])
    /\ last' = Call("Transformer.name", Ok)
    /\ UNCHANGED <<buses, bus_counter, transmission_lines, generators, loads, trf, line, bus_log, circuit_name>>

\* circuit.transmission_lines[key].name = value
SetRegLineName(key, value) ==
    /\ key \in Keys(transmission_lines)
    /\ LET out == L_name_setter(Get(transmission_lines, key), value)
       IN  /\ transmission_lines' = DictSet(transmission_lines, key, out.obj)
           /\ last' = Call("TransmissionLine.name", out.res)
    /\ UNCHANGED <<buses, bus_counter, transformers, generators, loads, trf, line, bus_log, circuit_name>>

\* circuit.loads[key].name = value
SetRegLoadName(key, value) ==
    /\ key \in Keys(loads)
    /\ LET out == Ld_name_setter(Get(loads, key), value)
       IN  /\ loads' = DictSet(loads, key, out.obj)
           /\ last' = Call("Load.name", out.res)
    /\ UNCHANGED <<buses, bus_counter, transformers, transmission_lines, generators, trf, line,
                   bus_log, circuit_name>>

-----------------------------------------------------------------------------
(* The Y-bus of a Circuit: get_admittance_matrix(), assembled on every read from
   the bus registry and the local matrices of the registered elements *)

\* the row and column of bus `name`: its place in the registry's insertion order
BusPos(bs, name) == CHOOSE i \in DOMAIN bs : bs[i].key = name

\* N x N zeros labelled by the bus names in registry order
ZeroYBus(bs) ==
    [index |-> [i \in DOMAIN bs |-> bs[i].key],
     v |-> [i \in DOMAIN bs |-> [j \in DOMAIN bs |-> CZero]]]

\* Y[i, j] += val
CellAdd(Y, i, j, val) == [Y EXCEPT !.v[i][j] = CAdd(@, val)]

\* ScatterAdd that adds the first diagonal entry to the whole row of bus1
ScatterAdd_whole_row(Y, bs, e) ==
    LET p1 == BusPos(bs, e.bus1_name)
    IN  [Y EXCEPT !.v[p1] =
            [j \in DOMAIN bs |-> CAdd(Y.v[p1][j], e.admittance_matrix.v[1][1])]]

\* the four entries of the local matrix of element e, each added to the cell its
\* two endpoint buses address
ScatterAdd(Y, bs, e) ==
    LET p1 == BusPos(bs, e.bus1_name)
        p2 == BusPos(bs, e.bus2_name)
        m == e.admittance_matrix
        y1 == CellAdd(Y, p1, p1, m.v[1][1])
        y2 == CellAdd(y1, p1, p2, m.v[1][2])
        y3 == CellAdd(y2, p2, p1, m.v[2][1])
        y4 == CellAdd(y3, p2, p2, m.v[2][2])
    IN  y4

\* ScatterAdd of every element of the dict d, in its order
RECURSIVE ScatterAll(_, _, _)
ScatterAll(Y, bs, d) ==
    IF d = <<>> THEN Y ELSE ScatterAll(ScatterAdd(Y, bs, Head(d).val), bs, Tail(d))

\* the Y-bus of the circuit with bus registry bs, transmission lines ls, transformers ts
Assemble(bs, ls, ts) == ScatterAll(ScatterAll(ZeroYBus(bs), bs, ls), bs, ts)

\* circuit.get_admittance_matrix(): what it returns
GetAdmittanceMatrix == Assemble(buses, transmission_lines, transformers)

\* the call itself, which leaves the circuit as it is
ReadYBus ==
    /\ last' = Call("get_admittance_matrix", Ok)
    /\ UNCHANGED <<circuit_vars, trf, line, bus_log, circuit_name>>

-----------------------------------------------------------------------------
(* Initial state: a fresh process, an empty Circuit, no element constructed *)

Init ==
    /\ buses = <<>>
    /\ bus_counter = 1
    /\ transformers = <<>>
    /\ transmission_lines = <<>>
    /\ generators = <<>>
    /\ loads = <<>>
    /\ trf = NoObj
    /\ line = NoObj
    /\ last = Call("start", Ok)
    /\ bus_log = <<>>
    /\ circuit_name = NameC

-----------------------------------------------------------------------------
(* A Transformer on its own: construction and its four parameter setters *)

NextT ==
    \/ \E b2 \in {NameA, NameB}, r \in Vals, x \in Vals, g \in Vals, b \in Vals :
            NewTransformer(<<"T">>, NameA, b2, r, x, g, b)
    \/ \E v \in Vals : SetTransformerR(v)
    \/ \E v \in Vals : SetTransformerX(v)
    \/ \E v \in Vals : SetTransformerG(v)
    \/ \E v \in Vals : SetTransformerB(v)

SpecT == Init /\ [][NextT]_vars

-----------------------------------------------------------------------------
(* A TransmissionLine on its own: construction, the r and x setters, reading g *)

NextL ==
    \/ \E b2 \in {NameA, NameB}, r \in Vals, x \in Vals :
            NewTransmissionLine(<<"L">>, NameA, b2, r, x)
    \/ \E v \in Vals : SetLineR(v)
    \/ \E v \in Vals : SetLineX(v)
    \/ ReadLineG

SpecL == Init /\ [][NextL]_vars

-----------------------------------------------------------------------------
(* A Circuit being filled: the five add methods *)

BusNames == {NameA, NameB}

\* every collection is offered the name of a bus
ElemNames == {NameA}

\* bus2_name of a transformer or line: a bus that gets registered, one that never is
Bus2Args == {NameB, NameC}

GenBusArgs == {NameA, NameC}

\* voltage_setpoint: rejected (0) and accepted (1)
GenVoltArgs == {0, 1}

LoadBusArgs == {NameA, Empty}

LoadMwArgs == {0, 1}

NextC ==
    \/ \E n \in BusNames, kv \in KvVals : AddBus(n, kv)
    \/ \E n \in ElemNames, b2 \in Bus2Args, r \in SignVals, x \in SignVals :
            AddTransformer(n, NameA, b2, r, x)
    \/ \E n \in ElemNames, b2 \in Bus2Args, r \in SignVals, x \in SignVals :
            AddTransmissionLine(n, NameA, b2, r, x)
    \/ \E n \in ElemNames, bn \in GenBusArgs, v \in GenVoltArgs :
            AddGenerator(n, bn, PyNum(v), PyNum(1))
    \/ \E n \in ElemNames, bn \in LoadBusArgs, mw \in LoadMwArgs : AddLoad(n, bn, mw, 0)

SpecC == Init /\ [][NextC]_vars

-----------------------------------------------------------------------------
(* Elements built directly and through a Circuit, with every sign of r, x, g, b *)

NextN ==
    \/ \E n \in BusNames : AddBus(n, 1)
    \/ \E n \in ElemNames, r \in SignVals, x \in SignVals :
            AddTransformer(n, NameA, NameB, r, x)
    \/ \E n \in ElemNames, r \in SignVals, x \in SignVals :
            AddTransmissionLine(n, NameA, NameB, r, x)
    \/ \E r \in SignVals, x \in SignVals, g \in SignVals, b \in SignVals :
            NewTransformer(<<"T">>, NameA, NameB, r, x, g, b)
    \/ \E r \in SignVals, x \in SignVals :
            NewTransmissionLine(<<"L">>, NameA, NameB, r, x)

SpecN == Init /\ [][NextN]_vars

-----------------------------------------------------------------------------
(* A Circuit whose registered elements have their bus names reassigned *)

NextE ==
    \/ \E n \in BusNames, kv \in KvVals : AddBus(n, kv)
    \/ \E n \in ElemNames, r \in {0, 1} : AddTransformer(n, NameA, NameB, r, 1)
    \/ \E n \in ElemNames, r \in {0, 1} : AddTransmissionLine(n, NameA, NameB, r, 1)
    \/ \E k \in ElemNames, v \in {NameB, NameC} : SetRegTransformerBus1(k, v)
    \/ \E k \in ElemNames, v \in {NameA, NameC} : SetRegTransformerBus2(k, v)
    \/ \E k \in ElemNames, v \in {NameC, PadA, Empty} : SetRegLineBus1(k, v)
    \/ \E k \in ElemNames, v \in {NameC, PadA, Empty} : SetRegLineBus2(k, v)

SpecE == Init /\ [][NextE]_vars

-----------------------------------------------------------------------------
(* Names with surrounding whitespace, blank names and names differing in case *)

Blank == <<" ">>

LowerA == <<"a">>

\* name and bus1_name arguments of the element constructors
NameArgs == {NameA, PadA, Blank, Empty}

\* name arguments of add_bus
BusNameArgs == {NameA, PadA, LowerA, Empty}

NextS ==
    \/ \E n \in BusNameArgs : AddBus(n, 1)
    \/ \E n \in NameArgs, b1 \in NameArgs : NewTransformer(n, b1, NameB, 1, 1, 0, 0)
    \/ \E n \in NameArgs, b1 \in NameArgs : NewTransmissionLine(n, b1, NameB, 1, 1)

SpecS == Init /\ [][NextS]_vars

-----------------------------------------------------------------------------
(* Bus objects created directly and through circuits, resets of the counter *)

\* at most MaxLog Bus creations and counter resets are followed
MaxLog == 4

NextB ==
    \/ Len(bus_log) < MaxLog /\ NewBus(NameC, 1)
    \/ \E n \in BusNames : Len(bus_log) < MaxLog /\ AddBus(n, 1)
    \/ Len(bus_log) < MaxLog /\ ResetIndexCounter
    \/ NewCircuit

SpecB == Init /\ [][NextB]_vars

-----------------------------------------------------------------------------
(* A Circuit whose Y-bus is read while buses and elements are added and the
   parameters of registered elements are set *)

YBusNames == {NameA, NameB, NameC}

\* the values given to r and g
YVals == {0, 1}

NextY ==
    \/ \E n \in YBusNames : AddBus(n, 1)
    \/ \E b2 \in Bus2Args, r \in YVals : AddTransformer(NameA, NameA, b2, r, 1)
    \/ AddTransformer(NameB, NameA, NameB, 1, 1)
    \/ \E r \in YVals : AddTransmissionLine(NameA, NameA, NameB, r, 1)
    \/ \E v \in YVals : SetRegTransformerR(NameA, v)
    \/ SetRegTransformerX(NameA, 1)
    \/ \E v \in YVals : SetRegTransformerG(NameA, v)
    \/ SetRegTransformerB(NameA, 1)
    \/ \E v \in YVals : SetRegLineR(NameA, v)
    \/ SetRegLineX(NameA, 1)
    \/ ReadYBus

SpecY == Init /\ [][NextY]_vars

-----------------------------------------------------------------------------
(* A Generator registered in a Circuit and assigned to through its four setters,
   with values of every Python type a caller can pass for a numeric field *)

GenNumArgs ==
    {PyNum(n) : n \in SignVals} \cup {PyNone, PyInf, PyNegInf, PyNaN, PyBool(TRUE), PyStr}

GenStrArgs == {NameB, PadA, Blank, Empty, NoneVal}

NextG ==
    \/ \E v \in GenNumArgs, mw \in GenNumArgs : AddGenerator(NameA, NameA, v, mw)
    \/ \E value \in GenStrArgs : SetRegGeneratorName(NameA, value)
    \/ \E value \in GenStrArgs : SetRegGeneratorBusName(NameA, value)
    \/ \E value \in GenNumArgs : SetRegGeneratorMw(NameA, value)
    \/ \E value \in GenNumArgs : SetRegGeneratorV(NameA, value)

SpecG == Init /\ [][NextG]_vars

-----------------------------------------------------------------------------
(* A Circuit whose registered objects have their names reassigned *)

RenameArgs == {NameA, NameB, Empty}

NextR ==
    \/ \E n \in {NameA, NameB} : AddBus(n, 1)
    \/ AddTransformer(NameA, NameA, NameB, 1, 1)
    \/ AddTransmissionLine(NameA, NameA, NameB, 1, 1)
    \/ AddGenerator(NameA, NameA, PyNone, PyNum(1))
    \/ AddLoad(NameA, NameA, 1, 0)
    \/ \E value \in RenameArgs : SetRegBusName(NameA, value)
    \/ \E value \in RenameArgs : SetRegTransformerName(NameA, value)
    \/ \E value \in RenameArgs : SetRegLineName(NameA, value)
    \/ \E value \in RenameArgs : SetRegGeneratorName(NameA, value)
    \/ \E value \in RenameArgs : SetRegLoadName(NameA, value)

SpecR == Init /\ [][NextR]_vars

-----------------------------------------------------------------------------
(* Circuits constructed and renamed, with plain, padded, blank and non-str names *)

CircuitNameArgs == {NameA, NameB, PadA, Blank, Empty, NoneVal}

NextK ==
    \/ \E name \in CircuitNameArgs : CircuitNew(name)
    \/ \E value \in CircuitNameArgs : SetCircuitName(value)
    \/ \E n \in BusNames : Len(bus_log) < MaxLog /\ AddBus(n, 1)

SpecK == Init /\ [][NextK]_vars

-----------------------------------------------------------------------------
(* Properties *)

TransformerSetters == {"Transformer.r", "Transformer.x", "Transformer.g", "Transformer.b"}

\* r < 0, x < 0, or r == 0 and x == 0
InvalidSeries(r, x) == r < 0 \/ x < 0 \/ (r = 0 /\ x = 0)

\* C1: a Transformer r, x, g or b setter call that raises leaves the element as it
\* was before the call: r, x, g, b and admittance_matrix are all unchanged.
C1_RejectedSetterKeepsState ==
    [][(last'.op \in TransformerSetters /\ last'.err # "none") => trf' = trf]_vars

\* C2: when the calls on a TransmissionLine have succeeded and its r and x are
\* valid, admittance_matrix is the matrix a line with the current r and x has.
C2_LineMatrixCurrent ==
    (/\ line # NoObj
     /\ last.err = "none"
     /\ ~InvalidSeries(line.r, line.x))
    => line.admittance_matrix =
         L_init(line.name, line.bus1_name, line.bus2_name, line.r, line.x).obj.admittance_matrix

C4_LineParamsValid ==
    line # NoObj => (line.r >= 0 /\ line.x >= 0 /\ ~(line.r = 0 /\ line.x = 0))

C6_UnknownBusRejected ==
    [][last'.op \in {"add_transformer", "add_transmission_line"} =>
        \/ last'.err # "none" /\ UNCHANGED circuit_vars
        \/ \A n \in ElemNames, b2 \in Bus2Args, r \in SignVals, x \in SignVals :
            ~(/\ NameA \notin Keys(buses) \/ b2 \notin Keys(buses)
              /\ \/ AddTransformer(n, NameA, b2, r, x)
                 \/ AddTransmissionLine(n, NameA, b2, r, x))
      ]_vars

\* C6 witness: add_transformer has raised for an unregistered bus1_name while the
\* bus2_name it may name is registered.
C6_Witness ==
    /\ last.op = "add_transformer"
    /\ last.msg = "not both in circuit"
    /\ Keys(buses) = {NameB}
    /\ transformers = <<>>

\* C7: both bus names of every registered transformer and transmission line are
\* keys of the bus registry.
C7_EndpointsRegistered ==
    /\ \A i \in DOMAIN transformers :
            {transformers[i].val.bus1_name, transformers[i].val.bus2_name} \subseteq Keys(buses)
    /\ \A i \in DOMAIN transmission_lines :
            {transmission_lines[i].val.bus1_name, transmission_lines[i].val.bus2_name}
                \subseteq Keys(buses)

\* C8: add_bus with a name that is a key of the bus registry raises "already
\* exists" and leaves the registry as it was: same buses, same nominal_kv and
\* bus_index under each name.
C8_DuplicateBusRejected ==
    [][last'.op = "add_bus" =>
        \/ /\ last'.err = "ValueError" /\ last'.msg = "already exists"
           /\ buses' = buses
        \/ \A n \in BusNames, kv \in KvVals :
            ~(n \in Keys(buses) /\ AddBus(n, kv))
      ]_vars

\* C8 witness: add_bus has been refused as a duplicate with two buses registered.
C8_Witness ==
    /\ last.op = "add_bus" /\ last.msg = "already exists"
    /\ Len(buses) = 2

\* C9: add_transformer, add_transmission_line, add_generator and add_load with a
\* name already in that collection raise "already exists" and change nothing,
\* whatever the other arguments are.
DuplicateRefused ==
    /\ last'.err = "ValueError" /\ last'.msg = "already exists"
    /\ UNCHANGED circuit_vars

C9_DuplicateElementRejected ==
    [][/\ last'.op = "add_transformer" =>
            \/ DuplicateRefused
            \/ \A n \in ElemNames, b2 \in Bus2Args, r \in SignVals, x \in SignVals :
                ~(n \in Keys(transformers) /\ AddTransformer(n, NameA, b2, r, x))
       /\ last'.op = "add_transmission_line" =>
            \/ DuplicateRefused
            \/ \A n \in ElemNames, b2 \in Bus2Args, r \in SignVals, x \in SignVals :
                ~(/\ n \in Keys(transmission_lines)
                  /\ AddTransmissionLine(n, NameA, b2, r, x))
       /\ last'.op = "add_generator" =>
            \/ DuplicateRefused
            \/ \A n \in ElemNames, bn \in GenBusArgs, v \in GenVoltArgs :
                ~(n \in Keys(generators) /\ AddGenerator(n, bn, PyNum(v), PyNum(1)))
       /\ last'.op = "add_load" =>
            \/ DuplicateRefused
            \/ \A n \in ElemNames, bn \in LoadBusArgs, mw \in LoadMwArgs :
                ~(n \in Keys(loads) /\ AddLoad(n, bn, mw, 0))
      ]_vars

\* C9 witness: add_transformer has been refused as a duplicate, every collection
\* holding an element.
C9_Witness ==
    /\ last.op = "add_transformer" /\ last.msg = "already exists"
    /\ transformers # <<>> /\ transmission_lines # <<>>
    /\ generators # <<>> /\ loads # <<>>

\* C10: an add call raises "already exists" only when the name is a key of the
\* collection it adds to, whatever the other collections hold, and it leaves the
\* other collections unchanged.
C10_IndependentNamespaces ==
    [][/\ last'.op = "add_bus" =>
            /\ UNCHANGED <<transformers, transmission_lines, generators, loads>>
            /\ last'.msg = "already exists" =>
                \A n \in BusNames, kv \in KvVals :
                    ~(n \notin Keys(buses) /\ AddBus(n, kv))
       /\ last'.op = "add_transformer" =>
            /\ UNCHANGED <<buses, transmission_lines, generators, loads>>
            /\ last'.msg = "already exists" =>
                \A n \in ElemNames, b2 \in Bus2Args, r \in SignVals, x \in SignVals :
                    ~(n \notin Keys(transformers) /\ AddTransformer(n, NameA, b2, r, x))
       /\ last'.op = "add_transmission_line" =>
            /\ UNCHANGED <<buses, transformers, generators, loads>>
            /\ last'.msg = "already exists" =>
                \A n \in ElemNames, b2 \in Bus2Args, r \in SignVals, x \in SignVals :
                    ~(/\ n \notin Keys(transmission_lines)
                      /\ AddTransmissionLine(n, NameA, b2, r, x))
       /\ last'.op = "add_generator" =>
            /\ UNCHANGED <<buses, transformers, transmission_lines, loads>>
            /\ last'.msg = "already exists" =>
                \A n \in ElemNames, bn \in GenBusArgs, v \in GenVoltArgs :
                    ~(/\ n \notin Keys(generators)
                      /\ AddGenerator(n, bn, PyNum(v), PyNum(1)))
       /\ last'.op = "add_load" =>
            /\ UNCHANGED <<buses, transformers, transmission_lines, generators>>
            /\ last'.msg = "already exists" =>
                \A n \in ElemNames, bn \in LoadBusArgs, mw \in LoadMwArgs :
                    ~(n \notin Keys(loads) /\ AddLoad(n, bn, mw, 0))
      ]_vars

\* C10 witness: one name is a key of all five collections at once.
C10_Witness ==
    /\ NameA \in Keys(buses)
    /\ NameA \in Keys(transformers)
    /\ NameA \in Keys(transmission_lines)
    /\ NameA \in Keys(generators)
    /\ NameA \in Keys(loads)

\* C11: a Transformer or TransmissionLine that a constructor call returned has a
\* name, bus1_name and bus2_name that are non-empty and carry no leading or trailing
\* whitespace (a blank or empty one makes the constructor raise).
C11_NamesTrimmed ==
    /\ trf # NoObj =>
        \A s \in {trf.name, trf.bus1_name, trf.bus2_name} : s # Empty /\ Strip(s) = s
    /\ line # NoObj =>
        \A s \in {line.name, line.bus1_name, line.bus2_name} : s # Empty /\ Strip(s) = s

\* C12: the keys of the bus registry are non-empty and trimmed, no two of them are
\* equal after trimming, and each Bus carries its key as its name.
C12_BusNameIdentity ==
    /\ \A i \in DOMAIN buses :
        /\ buses[i].key # Empty
        /\ Strip(buses[i].key) = buses[i].key
        /\ buses[i].val.name = buses[i].key
    /\ \A i \in DOMAIN buses, j \in DOMAIN buses :
        i # j => Strip(buses[i].key) # Strip(buses[j].key)

\* position of the latest reset_index_counter() in bus_log before position i, or 0
LastReset(i) ==
    LET rs == {j \in 1 .. i : bus_log[j].kind = "reset"}
    IN  IF rs = {} THEN 0 ELSE CHOOSE j \in rs : \A k \in rs : k <= j

\* C13: the k-th Bus created since the process started, or since the latest
\* Bus.reset_index_counter(), has bus_index k, whether it was created directly or by
\* add_bus of any Circuit; creating a Circuit does not start the count again.
C13_OrdinalIsCreationRank ==
    \A i \in DOMAIN bus_log :
        bus_log[i].kind = "Bus" => bus_log[i].bus_index = i - LastReset(i)

\* C13 witness: a bus added to a circuit, a bus created directly, a reset, then a
\* bus added to a new circuit under the first name, which gets ordinal 1 again.
C13_Witness ==
    /\ Len(bus_log) = 4
    /\ bus_log[1].kind = "Bus" /\ bus_log[1].name = NameA
    /\ bus_log[2].kind = "Bus" /\ bus_log[2].name = NameC /\ bus_log[2].bus_index = 2
    /\ bus_log[3].kind = "reset"
    /\ bus_log[4].kind = "Bus" /\ bus_log[4].name = NameA /\ bus_log[4].bus_index = 1
    /\ Len(buses) = 1

\* C14: no two Bus objects ever created have the same bus_index, and a Bus that
\* exists keeps its bus_index, whatever Bus creations and reset_index_counter()
\* calls are made.
C14_OrdinalNeverReused ==
    [][/\ \A i \in DOMAIN bus_log' : \A j \in DOMAIN bus_log' :
            (i # j /\ bus_log'[i].kind = "Bus" /\ bus_log'[j].kind = "Bus")
                => bus_log'[i].bus_index # bus_log'[j].bus_index
       /\ SubSeq(bus_log', 1, Len(bus_log)) = bus_log
      ]_vars

\* C15: a TransmissionLine built with r, x and no shunt argument has the shunt
\* susceptance b = 0, so both diagonal entries of its matrix are
\* Y_series + j * (0 / 2) = 1 / (r + jx) exactly (bus1_name and bus2_name distinct).
C15_LineDiagonal ==
    (/\ line # NoObj
     /\ last.op = "TransmissionLine"
     /\ line.bus1_name # line.bus2_name)
    => /\ line.admittance_matrix.v[1][1] = Recip(line.r, line.x)
       /\ line.admittance_matrix.v[2][2] = Recip(line.r, line.x)

\* (g + jb) / 2
HalfShunt(g, b) == Cplx(Frac(g, 2), Frac(b, 2))

\* C16: after a successful construction or setter call of a Transformer between two
\* distinct buses, both diagonal entries of admittance_matrix are
\* 1 / (r + jx) + (g + jb) / 2 for the current r, x, g, b.
C16_TransformerDiagonal ==
    (/\ trf # NoObj
     /\ last.err = "none"
     /\ trf.bus1_name # trf.bus2_name)
    => /\ trf.admittance_matrix.v[1][1] = CAdd(Recip(trf.r, trf.x), HalfShunt(trf.g, trf.b))
       /\ trf.admittance_matrix.v[2][2] = CAdd(Recip(trf.r, trf.x), HalfShunt(trf.g, trf.b))

\* m is labelled <<b1, b2>> on rows and columns, symmetric, with equal diagonal
\* entries and both off-diagonal entries -1 / (r + jx)
PiShape(m, b1, b2, r, x) ==
    /\ m.index = <<b1, b2>>
    /\ m.v[1][2] = m.v[2][1]
    /\ m.v[1][1] = m.v[2][2]
    /\ m.v[1][2] = CNeg(Recip(r, x))

\* C17: every Transformer and TransmissionLine whose parameters are valid has an
\* admittance_matrix labelled [bus1_name, bus2_name], symmetric, with equal diagonal
\* entries and off-diagonal entries -1 / (r + jx).
C17_LocalMatrixShape ==
    /\ (trf # NoObj /\ T_validate_params(trf).err = "none")
        => PiShape(trf.admittance_matrix, trf.bus1_name, trf.bus2_name, trf.r, trf.x)
    /\ (line # NoObj /\ ~InvalidSeries(line.r, line.x))
        => PiShape(line.admittance_matrix, line.bus1_name, line.bus2_name, line.r, line.x)

\* the local matrix an element has when built from its current parameters
CurrentLocal(e) ==
    IF e.kind = "Transformer"
    THEN T_build_admittance_matrix(e)
    ELSE L_init(e.name, e.bus1_name, e.bus2_name, e.r, e.x).obj.admittance_matrix

\* the elements of dict d, each with the local matrix of its current parameters
Rebuilt(d) ==
    [i \in DOMAIN d |->
        [key |-> d[i].key,
         val |-> [d[i].val EXCEPT !.admittance_matrix = CurrentLocal(d[i].val)]]]

\* every registered element has valid parameters
AllValid ==
    /\ \A i \in DOMAIN transformers : T_validate_params(transformers[i].val).err = "none"
    /\ \A i \in DOMAIN transmission_lines :
        ~InvalidSeries(transmission_lines[i].val.r, transmission_lines[i].val.x)

\* C18: whatever buses and elements were added and whatever r, x, g, b of registered
\* elements were set, the Y-bus read next is the superposition of the local matrices
\* the elements have for their current parameters.
C18_YBusCurrent ==
    AllValid =>
        GetAdmittanceMatrix
            = Assemble(buses, Rebuilt(transmission_lines), Rebuilt(transformers))

\* C19: the Y-bus is N x N for the N buses registered, and its i-th row and column
\* carry the name of the i-th bus added (bus_log holds the buses in the order add_bus
\* created them), also when buses are added after elements.
C19_YBusShape ==
    LET Y == GetAdmittanceMatrix
        N == Len(bus_log)
    IN  /\ Len(buses) = N
        /\ Len(Y.index) = N
        /\ \A i \in 1 .. N : Y.index[i] = bus_log[i].name
        /\ Len(Y.v) = N
        /\ \A i \in 1 .. N : Len(Y.v[i]) = N

\* C19 witness: bus C has just been added third, after a transformer and a line
\* between A and B; its row is the third one and the earlier cells are filled.
C19_Witness ==
    /\ last.op = "add_bus" /\ last.err = "none"
    /\ Len(buses) = 3 /\ buses[3].key = NameC
    /\ transformers # <<>> /\ transmission_lines # <<>>
    /\ GetAdmittanceMatrix.index[3] = NameC
    /\ GetAdmittanceMatrix.v[3][3] = CZero
    /\ GetAdmittanceMatrix.v[1][1] # CZero

\* what the local matrix of element e adds to cell (i, j) of the Y-bus over buses bs
Contribution(bs, e, i, j) ==
    LET ends == <<BusPos(bs, e.bus1_name), BusPos(bs, e.bus2_name)>>
        part(a, b) == IF ends[a] = i /\ ends[b] = j
                      THEN e.admittance_matrix.v[a][b] ELSE CZero
    IN  CAdd(CAdd(part(1, 1), part(1, 2)), CAdd(part(2, 1), part(2, 2)))

\* C20: a successful add_transformer or add_transmission_line changes every cell of
\* the Y-bus by exactly what the local matrix of the new element contributes to it:
\* the cells its two buses address grow by its entries, every other cell is unchanged.
C20_Superposition ==
    [][(last'.op \in {"add_transformer", "add_transmission_line"} /\ last'.err = "none") =>
        LET old == IF last'.op = "add_transformer" THEN transformers ELSE transmission_lines
            new == IF last'.op = "add_transformer" THEN transformers' ELSE transmission_lines'
            e == Get(new, CHOOSE k \in Keys(new) \ Keys(old) : TRUE)
            Y0 == GetAdmittanceMatrix
            Y1 == Assemble(buses', transmission_lines', transformers')
        IN  /\ Y1.index = Y0.index
            /\ \A i \in DOMAIN buses : \A j \in DOMAIN buses :
                Y1.v[i][j] = CAdd(Y0.v[i][j], Contribution(buses, e, i, j))
      ]_vars

\* C20 witness: a second transformer has just been added between the two buses of
\* the first, and the cell they share holds the sum of their off-diagonal entries.
C20_Witness ==
    /\ last.op = "add_transformer" /\ last.err = "none"
    /\ Len(transformers) = 2 /\ transmission_lines = <<>>
    /\ transformers[1].val.bus2_name = NameB /\ transformers[2].val.bus2_name = NameB
    /\ GetAdmittanceMatrix.v[BusPos(buses, NameA)][BusPos(buses, NameB)]
        = CAdd(transformers[1].val.admittance_matrix.v[1][2],
               transformers[2].val.admittance_matrix.v[1][2])

\* the permutations of 1 .. n
Bijections(n) ==
    {f \in [1 .. n -> 1 .. n] : \A i \in 1 .. n : \A j \in 1 .. n : f[i] = f[j] => i = j}

\* the dict entry that `new` holds and `old` does not
NewEntry(old, new) ==
    LET k == CHOOSE k \in Keys(new) \ Keys(old) : TRUE
    IN  [key |-> k, val |-> Get(new, k)]

Isolated(name) ==
    /\ \A i \in DOMAIN transformers :
        name \notin {transformers[i].val.bus1_name, transformers[i].val.bus2_name}
    /\ \A i \in DOMAIN transmission_lines :
        name \notin {transmission_lines[i].val.bus1_name, transmission_lines[i].val.bus2_name}

\* C22: the row and the column of every registered bus that is an endpoint of no
\* registered element are all zero in the Y-bus, which is read without an error.
C22_IsolatedBusZero ==
    LET Y == GetAdmittanceMatrix
    IN  /\ \A i \in DOMAIN buses :
            Isolated(buses[i].key) =>
                \A j \in DOMAIN buses : Y.v[i][j] = CZero /\ Y.v[j][i] = CZero
        /\ last.op = "get_admittance_matrix" => last.err = "none"

\* C22 witness: the Y-bus has been read with bus C registered first and isolated,
\* and an element between A and B.
C22_Witness ==
    /\ last.op = "get_admittance_matrix"
    /\ Len(buses) = 3 /\ buses[1].key = NameC
    /\ Isolated(NameC)
    /\ transformers # <<>>
    /\ GetAdmittanceMatrix.v[2][3] # CZero
    /\ GetAdmittanceMatrix.v[1][1] = CZero

\* C23: the Y-bus is symmetric: Y[i, j] = Y[j, i] for all bus positions i, j.
C23_YBusSymmetric ==
    LET Y == GetAdmittanceMatrix
    IN  \A i \in DOMAIN buses : \A j \in DOMAIN buses : Y.v[i][j] = Y.v[j][i]

\* C23 witness: three buses, two transformers to different buses and a line, a
\* parameter of a transformer set after registration; the off-diagonal cells are filled.
C23_Witness ==
    /\ Len(buses) = 3
    /\ Len(transformers) = 2 /\ Len(transmission_lines) = 1
    /\ Get(transformers, NameA).bus2_name = NameC
    /\ Get(transformers, NameA).g = 1
    /\ last.op = "Transformer.g"
    /\ GetAdmittanceMatrix.v[BusPos(buses, NameA)][BusPos(buses, NameB)] # CZero
    /\ GetAdmittanceMatrix.v[BusPos(buses, NameA)][BusPos(buses, NameC)] # CZero

\* C24: on a line obtained by a successful construction and any sequence of
\* successful r / x setter calls, reading g never raises the "undefined when
\* r == 0 and x == 0" error.
C24_GNeverUndefined ==
    last.op = "TransmissionLine.g" => last.err # "ZeroDivisionError"

GeneratorSetters ==
    {"Generator.name", "Generator.bus_name", "Generator.mw_setpoint", "Generator.v_setpoint"}

\* empty or whitespace-only
BlankStrs == {Empty, Blank}

\* not a number
NonNumeric == {PyStr, PyNone}

\* a number that is not positive
NonPositive == {PyNum(0), PyNum(-1), PyNegInf}

\* C25: a Generator setter given an empty or whitespace-only name or bus_name,
\* a non-numeric mw_setpoint or a non-positive v_setpoint raises, and a setter
\* that raises leaves the name, bus_name, mw_setpoint and v_setpoint of the
\* generator as they were.
C25_GeneratorSettersValidateFirst ==
    [][last'.op \in GeneratorSetters =>
        /\ last'.err # "none" => generators' = generators
        /\ \A value \in BlankStrs :
            /\ SetRegGeneratorName(NameA, value) => last'.err # "none"
            /\ SetRegGeneratorBusName(NameA, value) => last'.err # "none"
        /\ \A value \in NonNumeric : SetRegGeneratorMw(NameA, value) => last'.err # "none"
        /\ \A value \in NonPositive : SetRegGeneratorV(NameA, value) => last'.err # "none"
      ]_vars

\* a v_setpoint setter has raised on a generator whose v_setpoint is 1
C25_Witness ==
    /\ last.op = "Generator.v_setpoint"
    /\ last.err = "ValueError"
    /\ NameA \in Keys(generators)
    /\ Get(generators, NameA).v_setpoint = PyNum(1)

\* C26: after any successful Generator construction or setter call, the
\* generator's mw_setpoint is a finite real number and its v_setpoint is None
\* or a finite real number (an infinity or a NaN given for either is rejected).
C26_NumericFieldsFinite ==
    \A i \in DOMAIN generators :
        /\ IsFinite(generators[i].val.mw_setpoint)
        /\ generators[i].val.v_setpoint = PyNone \/ IsFinite(generators[i].val.v_setpoint)

\* C27: True or False assigned to a Generator's mw_setpoint or v_setpoint is
\* rejected, with an error of another class than the one a str assigned to the
\* same field of the same generator is rejected with.
C27_BoolErrorDistinct ==
    [][last'.op \in {"Generator.mw_setpoint", "Generator.v_setpoint"} =>
        \A b \in BOOLEAN :
            /\ SetRegGeneratorMw(NameA, PyBool(b)) =>
                /\ last'.err # "none"
                /\ last'.err # G_mw_setpoint_setter(Get(generators, NameA), PyStr).res.err
            /\ SetRegGeneratorV(NameA, PyBool(b)) =>
                /\ last'.err # "none"
                /\ last'.err # G_v_setpoint_setter(Get(generators, NameA), PyStr).res.err
      ]_vars

\* every key of the registry d is the name of the object stored under it
KeysAreNames(d) == \A i \in DOMAIN d : d[i].key = d[i].val.name

\* C28: in every state reached by registration calls and later operations on
\* the registered objects, assignments to their names included, each registry
\* key is the current name of the object stored under it, for buses,
\* transformers, transmission lines, generators and loads.
C28_KeysAreCurrentNames ==
    /\ KeysAreNames(buses)
    /\ KeysAreNames(transformers)
    /\ KeysAreNames(transmission_lines)
    /\ KeysAreNames(generators)
    /\ KeysAreNames(loads)

\* C29: an add_bus refused for a duplicate name creates no Bus and leaves the
\* process-wide counter where it was, and a successful add_bus gives the new
\* bus the counter's value and advances the counter by exactly one; so the next
\* bus added gets the index it would have got without the failed call.
C29_FailedAddBusKeepsOrdinal ==
    [][last'.op = "add_bus" =>
        IF last'.err # "none"
        THEN bus_counter' = bus_counter /\ buses' = buses /\ bus_log' = bus_log
        ELSE /\ bus_counter' = bus_counter + 1
             /\ Len(buses') = Len(buses) + 1
             /\ buses'[Len(buses')].val.bus_index = bus_counter
      ]_vars

\* an add_bus has been refused in a circuit that holds a bus, with buses created before
C29_Witness ==
    /\ last.op = "add_bus"
    /\ last.err = "ValueError"
    /\ Len(buses) >= 1
    /\ bus_counter > 1

\* a str whose trimmed form is not empty
NameAccepted(name) == IsStr(name) /\ Strip(name) # Empty

\* C30: the Circuit constructor and the Circuit name setter accept the same
\* names and store the same value: given a str whose trimmed form is not empty,
\* surrounding whitespace or not, each succeeds and the stored name is the
\* trimmed str; given any other value each raises ValueError.
C30_ConstructorAndSetterAgree ==
    [][last'.op \in {"Circuit", "Circuit.name"} =>
        \A name \in CircuitNameArgs :
            (CircuitNew(name) \/ SetCircuitName(name)) =>
                IF NameAccepted(name)
                THEN last'.err = "none" /\ circuit_name' = Strip(name)
                ELSE last'.err = "ValueError"
      ]_vars

=============================================================================
